---- MODULE Spec2Model ----
(***************************************************************************)
(* git-up: after a fetch, main() walks the local branches and, for each,   *)
(* process_branch() fast-forwards it, repoints it, deletes it or warns.    *)
(* The repository (local heads, remote-tracking refs, the checked-out      *)
(* branch, branch.<name>.remote configuration) is the environment the      *)
(* external git commands read and change.                                  *)
(***************************************************************************)
EXTENDS Integers, Sequences, FiniteSets, TLC

\* ------------------------------------------------------------------ bounds

\* Commits of the repository are 1..MaxCommit.
MaxCommit == 2

\* ------------------------------------------------------- program constants

\* main.rs:12  let remote = "origin";
remote == "origin"

\* main.rs:18  let default_branch = "main";
default_branch == "main"

\* main.rs:181, 205  diff.a[0..7]
ShortLen == 7

\* Length of the object name `git rev-parse` prints for a commit.
ShaLen == 40

\* ------------------------------------------------------------- environment

\* Short names local branches can have.
Branches == {"feat", "main"}

\* A remote other than the one being synced.
OtherRemote == "upstream"

Commits == 1..MaxCommit

\* A ref that does not exist.
NoRef == 0

\* HEAD when no branch is checked out.
Detached == "HEAD"

\* The token `git branch --list` ends its "(HEAD detached at 1a2b3c4)" line with.
DetachedToken == "1a2b3c4)"

\* String::new(), for a branch name and for a ref.
EmptyString == ""

EmptyRef == <<>>

\* The commit graph: a is reachable from b by parent links (a = b included).
\* Commit 1 is the root; 2 and 3 are siblings; 4 is a child of 2, and so on.
Reachable(a, b) == b % a = 0

\* The 40 hex digits git prints for commit c.
ObjectName(c) == [k \in 1..ShaLen |-> IF k <= 2 THEN c ELSE (c + k) % 16]

\* format!("refs/heads/{}", local_branch)
HeadRef(b) == <<"refs", "heads", b>>

\* format!("refs/remotes/{}/{}", remote, local_branch)
RemoteRef(r, b) == <<"refs", "remotes", r, b>>

VARIABLES
    heads,                \* refs/heads/<b>: commit or NoRef
    remotes,              \* refs/remotes/origin/<b> after the fetch: commit or NoRef
    head,                 \* the branch checked out in the working tree, or Detached
    config,               \* branch.<b>.remote of the local configuration
    pc,                   \* "start", "loop", "done", "fatal"
    branches_to_remotes,  \* main's HashMap
    local_branches,       \* main's Vec
    idx,                  \* number of branches the for loop has taken
    current_branch,       \* main's mutable String
    log                   \* per process_branch call, in order: what it saw and did

world == <<heads, remotes, head, config>>
vars == <<heads, remotes, head, config, pc, branches_to_remotes, local_branches,
          idx, current_branch, log>>

\* ------------------------------------------------- what git answers (reads)

\* Option::None of git_symbolic_full_name (a ref is never this value).
None == <<"None">>

\* The commit a ref names in the repository given by hs (heads) and rs
\* (remote-tracking refs of the sync remote), or NoRef.
Resolve(ref, hs, rs) ==
    IF Len(ref) = 3 /\ ref[1] = "refs" /\ ref[2] = "heads" /\ ref[3] \in Branches
    THEN hs[ref[3]]
    ELSE IF Len(ref) = 4 /\ ref[1] = "refs" /\ ref[2] = "remotes"
            /\ ref[3] = remote /\ ref[4] \in Branches
    THEN rs[ref[4]]
    ELSE NoRef

\* stdout of `git rev-parse --quiet a b`: the object name of each argument in
\* turn; an argument that does not resolve is echoed and git stops there.
RevParseLines(a, b, hs, rs) ==
    IF Resolve(a, hs, rs) = NoRef THEN <<a>>
    ELSE IF Resolve(b, hs, rs) = NoRef THEN <<ObjectName(Resolve(a, hs, rs)), b>>
    ELSE <<ObjectName(Resolve(a, hs, rs)), ObjectName(Resolve(b, hs, rs))>>

\* A line of rev-parse output that is an object name (not an echoed argument).
IsObjectName(x) == Len(x) = ShaLen

\* The commit an object name stands for.
CommitOf(x) == CHOOSE c \in Commits : ObjectName(c) = x

\* What `<branch>@{upstream}` can resolve to: a remote-tracking ref of the
\* sync remote that exists (branch.<b>.merge may name any branch), or nothing.
UpstreamAnswers(rs) ==
    {None} \cup {RemoteRef(remote, m) : m \in {x \in Branches : rs[x] # NoRef}}

\* Lines of `git config --local --get-regexp branch.*.remote`, each split at
\* ' ' with its first part split at '.'.
ConfigLines(cfg) ==
    {<<<<"branch", b, "remote">>, cfg[b]>> : b \in {x \in Branches : cfg[x] # ""}}

\* main.rs:54-64: key = second '.'-segment of parts[0], value = parts[1].
ParseMapping(lines) ==
    [k \in {l[1][2] : l \in lines} |->
        (CHOOSE l \in lines : l[1][2] = k)[2]]

\* Lines of `git branch --list`, trimmed and split at ' ': "* " marks the
\* checked-out branch; a detached HEAD is listed as "* (HEAD detached at ...)".
BranchLine(b, hd) == IF hd = b THEN <<"*", b>> ELSE <<b>>

BranchLines(hs, hd) ==
    {BranchLine(b, hd) : b \in {x \in Branches : hs[x] # NoRef}}

\* The line git puts first in the listing when HEAD is detached.
DetachedLines(hd) ==
    IF hd = Detached
    THEN <<(<<"*", "(HEAD", "detached", "at", DetachedToken>>)>>
    ELSE <<>>

\* main.rs:79: line.trim().split(' ').last()
ParseBranchLine(tokens) == tokens[Len(tokens)]

\* All orders in which the branches of a listing can come (branch.sort).
Orderings(S) ==
    {s \in [1..Cardinality(S) -> S] :
        \A i, j \in 1..Cardinality(S) : i # j => s[i] # s[j]}

\* stdout of `git branch --list`, line by line.
Listings(hs, hd) ==
    {DetachedLines(hd) \o s : s \in Orderings(BranchLines(hs, hd))}

\* ---------------------------------------------------------------- Range

\* Mutant: identity is never detected.
is_identical_never(range) == FALSE

\* main.rs:295-297
is_identical(range) == range.a = range.b

\* Mutant: a check that could not be executed counts as "is an ancestor".
git_is_ancestor_lenient(a, b, ran) ==
    IF ran
    THEN IsObjectName(a) /\ IsObjectName(b) /\ Reachable(CommitOf(a), CommitOf(b))
    ELSE TRUE

\* Mutant: the exit status of merge-base is not looked at.
git_is_ancestor_anyexit(a, b, ran) == ran

\* main.rs:304-316: `git merge-base --is-ancestor a b`; ran is whether the
\* process could be executed; git fails on an argument that is no object.
git_is_ancestor(a, b, ran) ==
    IF ran
    THEN IsObjectName(a) /\ IsObjectName(b) /\ Reachable(CommitOf(a), CommitOf(b))
    ELSE FALSE

\* Mutant: the ancestry question is asked the wrong way round.
is_ancestor_swapped(range, ran) ==
    IF ran
    THEN IsObjectName(range.a) /\ IsObjectName(range.b)
         /\ Reachable(CommitOf(range.b), CommitOf(range.a))
    ELSE FALSE

\* main.rs:299-301
is_ancestor(range, ran) == git_is_ancestor(range.a, range.b, ran)

\* main.rs:318-337: Err when the command cannot run or prints other than 2 lines.
git_range(a, b, ran, hs, rs) ==
    LET lines == RevParseLines(a, b, hs, rs)
    IN IF ~ran THEN [ok |-> FALSE, a |-> EmptyRef, b |-> EmptyRef]
       ELSE IF Len(lines) # 2 THEN [ok |-> FALSE, a |-> EmptyRef, b |-> EmptyRef]
       ELSE [ok |-> TRUE, a |-> lines[1], b |-> lines[2]]

\* diff.a[0..7]
ShortName(a) == SubSeq(a, 1, ShortLen)

\* ------------------------------------------- what git changes (mutations)

\* The repository as one value.
World == [heads |-> heads, remotes |-> remotes, head |-> head, config |-> config]

\* An entry of the log of mutating commands: the command and its arguments,
\* whether it succeeded (ok), whether nothing outside the repository's own
\* rules kept git from succeeding (may), the branch being processed and the
\* branch checked out when it was invoked.
Call(op, name, ref, target, ok, may, during, w) ==
    [op |-> op, name |-> name, ref |-> ref, target |-> target, ok |-> ok,
     may |-> may, during |-> during, head |-> w.head]

\* Mutant: update-ref reports success and leaves the ref where it was.
git_update_ref_noop(full_branch, remote_branch, may, w) ==
    [ok |-> may /\ Resolve(remote_branch, w.heads, w.remotes) # NoRef, w |-> w]

\* main.rs:256-268: `git update-ref <full_branch> <remote_branch>` moves the
\* ref and leaves the working tree alone; may is whether git is able to.
git_update_ref(full_branch, remote_branch, may, w) ==
    LET target == Resolve(remote_branch, w.heads, w.remotes)
        ok == may /\ target # NoRef /\ Len(full_branch) = 3
                  /\ full_branch[3] \in Branches
    IN [ok |-> ok,
        w  |-> IF ok
               THEN [w EXCEPT !.heads = [@ EXCEPT ![full_branch[3]] = target]]
               ELSE w]

\* main.rs:270-283: `git merge --ff-only <branch>` moves the checked-out
\* branch, and only forward.
git_fast_forward_merge(branch, may, w) ==
    LET target == Resolve(branch, w.heads, w.remotes)
        ok == may /\ target # NoRef
                  /\ (w.head # Detached => Reachable(w.heads[w.head], target))
    IN [ok |-> ok,
        w  |-> IF ok /\ w.head # Detached
               THEN [w EXCEPT !.heads = [@ EXCEPT ![w.head] = target]]
               ELSE w]

\* main.rs:242-254: `git checkout <branch>`; a branch that exists only on the
\* remote is created from its remote-tracking ref.
git_checkout(branch, may, w) ==
    LET ok == may /\ branch \in Branches
                  /\ (w.heads[branch] # NoRef \/ w.remotes[branch] # NoRef)
    IN [ok |-> ok,
        w  |-> IF ~ok THEN w
               ELSE IF w.heads[branch] # NoRef THEN [w EXCEPT !.head = branch]
               ELSE [w EXCEPT !.head = branch,
                              !.heads = [@ EXCEPT ![branch] = w.remotes[branch]],
                              !.config = [@ EXCEPT ![branch] = remote]]]

\* main.rs:227-240: `git branch -D <local_branch>`; git refuses to delete
\* the branch that is checked out.
git_delete_branch(local_branch, may, w) ==
    LET ok == may /\ local_branch \in Branches
                  /\ w.heads[local_branch] # NoRef /\ w.head # local_branch
    IN [ok |-> ok,
        w  |-> IF ok
               THEN [w EXCEPT !.heads = [@ EXCEPT ![local_branch] = NoRef],
                              !.config = [@ EXCEPT ![local_branch] = ""]]
               ELSE w]

\* ---------------------------------------------------------- process_branch

\* What one call of process_branch met and did: the branch, the current
\* branch it was given (cur) and the one main keeps afterwards (next_cur),
\* the repository it started from (w), git's answers (an answer it did not
\* ask for keeps the value given here), the branch of the code it took
\* (path), the two refs it handed to git_range (compared), how often it ran
\* the ancestry check, its return value, the mutating commands it invoked
\* and the lines printed for it.
Observed(local_branch, cur, w) ==
    [branch |-> local_branch, cur |-> cur, next_cur |-> cur, w |-> w,
     up |-> None, file |-> FALSE, path |-> "", compared |-> <<>>,
     range_ok |-> FALSE, anc_checks |-> 0, anc_ran |-> FALSE,
     ret |-> "", calls |-> <<>>, out |-> <<>>]

\* A printed line.
Line(kind, branch, text, was, into) ==
    [kind |-> kind, branch |-> branch, text |-> text, was |-> was, into |-> into]

\* What process_branch hands back: its return value (ret is "None", "Some"
\* or "Err"), the commands it invoked, the lines it printed, the repository
\* it leaves and what it observed.
Effect(ret, some, cs, ls, w, obs) ==
    [ret |-> ret, some |-> some, calls |-> cs, out |-> ls, w |-> w,
     obs |-> [obs EXCEPT !.ret = ret, !.calls = cs, !.out = ls]]

\* Mutant: the upstream's own name is ignored in favour of the convention.
Classify_convention(local_branch, in) ==
    LET default_ref == RemoteRef(remote, local_branch)
    IN IF local_branch \in DOMAIN branches_to_remotes
       THEN IF branches_to_remotes[local_branch] = remote
            THEN IF in.up # None
                 THEN [remote_branch |-> default_ref, gone |-> FALSE]
                 ELSE [remote_branch |-> EmptyRef, gone |-> TRUE]
            ELSE IF ~in.file
                 THEN [remote_branch |-> EmptyRef, gone |-> FALSE]
                 ELSE [remote_branch |-> default_ref, gone |-> FALSE]
       ELSE [remote_branch |-> default_ref, gone |-> FALSE]

\* Mutant: a branch of another remote without tracking file counts as gone.
Classify_otherGone(local_branch, in) ==
    LET default_ref == RemoteRef(remote, local_branch)
    IN IF local_branch \in DOMAIN branches_to_remotes
       THEN IF branches_to_remotes[local_branch] = remote
            THEN IF in.up # None
                 THEN [remote_branch |-> in.up, gone |-> FALSE]
                 ELSE [remote_branch |-> EmptyRef, gone |-> TRUE]
            ELSE IF ~in.file
                 THEN [remote_branch |-> EmptyRef, gone |-> TRUE]
                 ELSE [remote_branch |-> default_ref, gone |-> FALSE]
       ELSE [remote_branch |-> default_ref, gone |-> FALSE]

\* main.rs:120-141: remote_branch and gone after the lookup in the mapping.
\* in.up and in.file are git's answers to the two queries.
Classify(local_branch, in) ==
    LET default_ref == RemoteRef(remote, local_branch)
    IN IF local_branch \in DOMAIN branches_to_remotes
       THEN IF branches_to_remotes[local_branch] = remote
            THEN IF in.up # None
                 THEN [remote_branch |-> in.up, gone |-> FALSE]
                 ELSE [remote_branch |-> EmptyRef, gone |-> TRUE]
            ELSE IF ~in.file
                 THEN [remote_branch |-> EmptyRef, gone |-> FALSE]
                 ELSE [remote_branch |-> default_ref, gone |-> FALSE]
       ELSE [remote_branch |-> default_ref, gone |-> FALSE]

\* Mutant: every update is done by a merge into the working tree.
UpdateBranch_always_merge(local_branch, cur, full_branch, remote_branch, in, w) ==
    LET r == git_fast_forward_merge(remote_branch, in.act1, w)
    IN [w |-> r.w,
        calls |-> <<Call("merge", "", EmptyRef, remote_branch, r.ok,
                         in.act1, local_branch, w)>>,
        out |-> IF r.ok THEN <<>>
                ELSE <<Line("Error", local_branch,
                            "failed to fast forward merge", <<>>, "")>>]

\* main.rs:149-175: the fast-forward of the current branch, or the repoint
\* of another one, with the error line of a failure.
UpdateBranch(local_branch, cur, full_branch, remote_branch, in, w) ==
    IF local_branch = cur
    THEN LET r == git_fast_forward_merge(remote_branch, in.act1, w)
         IN [w |-> r.w,
             calls |-> <<Call("merge", "", EmptyRef, remote_branch, r.ok,
                              in.act1, local_branch, w)>>,
             out |-> IF r.ok THEN <<>>
                     ELSE <<Line("Error", local_branch,
                                 "failed to fast forward merge", <<>>, "")>>]
    ELSE LET r == git_update_ref(full_branch, remote_branch, in.act1, w)
         IN [w |-> r.w,
             calls |-> <<Call("update-ref", "", full_branch, remote_branch, r.ok,
                              in.act1, local_branch, w)>>,
             out |-> IF r.ok THEN <<>>
                     ELSE <<Line("Error", local_branch,
                                 "failed to update ref", <<>>, "")>>]

\* main.rs:143-192: the branch has a remote ref to compare against.
RemoteExists(local_branch, cur, remote_branch, in, w, obs0) ==
    LET full_branch == HeadRef(local_branch)
        diff == git_range(full_branch, remote_branch, in.range_ran, w.heads, w.remotes)
        obs1 == [obs0 EXCEPT !.path = "exists", !.range_ok = diff.ok,
                             !.compared = <<full_branch, remote_branch>>]
        obs2 == [obs1 EXCEPT !.anc_checks = 1, !.anc_ran = in.anc_ran]
    IN IF ~diff.ok THEN Effect("Err", "", <<>>, <<>>, w, obs1)
       ELSE IF is_identical(diff) THEN Effect("None", "", <<>>, <<>>, w, obs1)
       ELSE IF is_ancestor(diff, in.anc_ran)
       THEN LET u == UpdateBranch(local_branch, cur, full_branch, remote_branch, in, w)
            IN Effect("None", "", u.calls,
                      u.out \o <<Line("Updated branch", local_branch, "",
                                      ShortName(diff.a), "")>>,
                      u.w, obs2)
       ELSE Effect("None", "", <<>>,
                   <<Line("Warning", local_branch,
                          "seems to contain unpushed commits", <<>>, "")>>,
                   w, obs2)

\* main.rs:19  format!("refs/remotes/{}/{}", remote, default_branch)
full_default_branch == RemoteRef(remote, default_branch)

\* main.rs:196-211: leave the branch if it is the current one, delete it,
\* report it. A failed checkout or delete returns the error at once.
DeleteBranch(local_branch, cur, diff, in, w, obs) ==
    LET co == IF local_branch = cur
              THEN git_checkout(default_branch, in.act1, w)
              ELSE [ok |-> TRUE, w |-> w]
        co_calls == IF local_branch = cur
                    THEN <<Call("checkout", default_branch, EmptyRef, EmptyRef,
                                co.ok, in.act1, local_branch, w)>>
                    ELSE <<>>
        del == git_delete_branch(local_branch, in.act2, co.w)
        del_calls == co_calls \o <<Call("branch -D", local_branch, EmptyRef, EmptyRef,
                                        del.ok, in.act2, local_branch, co.w)>>
    IN IF ~co.ok THEN Effect("Err", "", co_calls, <<>>, co.w, obs)
       ELSE IF ~del.ok THEN Effect("Err", "", del_calls, <<>>, del.w, obs)
       ELSE Effect(IF local_branch = cur THEN "Some" ELSE "None",
                   IF local_branch = cur THEN default_branch ELSE "",
                   del_calls,
                   <<Line("Deleted branch", local_branch, "", ShortName(diff.a), "")>>,
                   del.w, obs)

\* main.rs:193-213: the branch's upstream is gone.
RemoteGone(local_branch, cur, in, w, obs0) ==
    LET full_branch == HeadRef(local_branch)
        diff == git_range(full_branch, full_default_branch, in.range_ran,
                          w.heads, w.remotes)
        obs1 == [obs0 EXCEPT !.path = "gone", !.range_ok = diff.ok,
                             !.compared = <<full_branch, full_default_branch>>]
        obs2 == [obs1 EXCEPT !.anc_checks = 1, !.anc_ran = in.anc_ran]
    IN IF ~diff.ok THEN Effect("Err", "", <<>>, <<>>, w, obs1)
       ELSE IF is_ancestor(diff, in.anc_ran)
       THEN DeleteBranch(local_branch, cur, diff, in, w, obs2)
       ELSE Effect("None", "", <<>>, <<>>, w, obs2)

\* main.rs:214-224: neither a remote ref nor gone.
Unknown(local_branch, cur, w, obs0) ==
    Effect("None", "", <<>>,
           <<Line("Warning", local_branch,
                  "was deleted on remote, but appears not merged into", <<>>, cur)>>,
           w, [obs0 EXCEPT !.path = "unknown"])

\* main.rs:112-225
process_branch(local_branch, cur, in, w) ==
    LET has_entry == local_branch \in DOMAIN branches_to_remotes
        same == has_entry /\ branches_to_remotes[local_branch] = remote
        c == Classify(local_branch, in)
        obs0 == [Observed(local_branch, cur, w) EXCEPT
                    !.up = IF same THEN in.up ELSE None,
                    !.file = IF has_entry /\ ~same THEN in.file ELSE FALSE]
    IN IF c.remote_branch # EmptyRef
       THEN RemoteExists(local_branch, cur, c.remote_branch, in, w, obs0)
       ELSE IF c.gone THEN RemoteGone(local_branch, cur, in, w, obs0)
       ELSE Unknown(local_branch, cur, w, obs0)

\* ------------------------------------------------------------------- main

\* What git can answer and allow during one process_branch call: the
\* upstream of the branch (asked only when the mapped remote is the sync
\* remote), whether the tracking file exists (asked only when it is another
\* remote), whether rev-parse and merge-base can be executed, and whether
\* the first and the second mutating command are able to succeed. An answer
\* that is not asked for, or that comes after a failure, is left at FALSE.
Inputs(local_branch) ==
    LET has_entry == local_branch \in DOMAIN branches_to_remotes
        same == has_entry /\ branches_to_remotes[local_branch] = remote
    IN {in \in [up : IF same THEN UpstreamAnswers(remotes) ELSE {None},
                file : IF has_entry /\ ~same THEN BOOLEAN ELSE {FALSE},
                range_ran : BOOLEAN, anc_ran : BOOLEAN,
                act1 : BOOLEAN, act2 : BOOLEAN] :
           /\ ~in.range_ran => ~in.anc_ran
           /\ ~in.anc_ran => ~in.act1
           /\ ~in.act1 => ~in.act2}

Init ==
    /\ heads \in [Branches -> Commits \cup {NoRef}]
    /\ remotes \in [Branches -> Commits \cup {NoRef}]
    /\ head \in {b \in Branches : heads[b] # NoRef} \cup {Detached}
    /\ config \in [Branches -> {"", remote, OtherRemote}]
    /\ \A b \in Branches : heads[b] = NoRef => config[b] = ""
    /\ pc = "start"
    /\ branches_to_remotes = << >>
    /\ local_branches = << >>
    /\ idx = 0
    /\ current_branch = EmptyString
    /\ log = << >>

\* main.rs:21-80: fetch, read the mapping, list the branches. A command that
\* cannot be executed ends the run with its error.
Setup ==
    /\ pc = "start"
    /\ \/ /\ pc' = "fatal"
          /\ UNCHANGED <<branches_to_remotes, local_branches>>
       \/ \E order \in Listings(heads, head) :
             /\ pc' = "loop"
             /\ branches_to_remotes' = ParseMapping(ConfigLines(config))
             /\ local_branches' = [i \in DOMAIN order |-> ParseBranchLine(order[i])]
    /\ UNCHANGED <<world, idx, current_branch, log>>

\* Mutant: an error returned by process_branch ends the loop.
LoopBody_abort(local_branch, r) ==
    LET printed == IF r.ret = "Err"
                   THEN r.out \o <<Line("Error", local_branch,
                                        "failed to process branch", <<>>, "")>>
                   ELSE r.out
    IN /\ heads' = r.w.heads
       /\ remotes' = r.w.remotes
       /\ head' = r.w.head
       /\ config' = r.w.config
       /\ current_branch' = IF r.ret = "Some" THEN r.some ELSE current_branch
       /\ log' = Append(log, [r.obs EXCEPT !.out = printed,
                                           !.next_cur = current_branch'])
       /\ idx' = idx + 1
       /\ pc' = IF r.ret = "Err" THEN "done" ELSE pc
       /\ UNCHANGED <<branches_to_remotes, local_branches>>

\* main.rs:92-106: what the loop body does with process_branch's result.
LoopBody(local_branch, r) ==
    LET printed == IF r.ret = "Err"
                   THEN r.out \o <<Line("Error", local_branch,
                                        "failed to process branch", <<>>, "")>>
                   ELSE r.out
    IN /\ heads' = r.w.heads
       /\ remotes' = r.w.remotes
       /\ head' = r.w.head
       /\ config' = r.w.config
       /\ current_branch' = IF r.ret = "Some" THEN r.some ELSE current_branch
       /\ log' = Append(log, [r.obs EXCEPT !.out = printed,
                                           !.next_cur = current_branch'])
       /\ idx' = idx + 1
       /\ UNCHANGED <<pc, branches_to_remotes, local_branches>>

\* main.rs:83-107: one iteration of the for loop.
ProcessBranch ==
    /\ pc = "loop"
    /\ idx < Len(local_branches)
    /\ \E in \in Inputs(local_branches[idx + 1]) :
          LoopBody(local_branches[idx + 1],
                   process_branch(local_branches[idx + 1], current_branch, in, World))

\* main.rs:109  Ok(())
Finish ==
    /\ pc = "loop"
    /\ idx = Len(local_branches)
    /\ pc' = "done"
    /\ UNCHANGED <<world, branches_to_remotes, local_branches, idx, current_branch, log>>

Next == Setup \/ ProcessBranch \/ Finish

Spec == Init /\ [][Next]_vars

\* ------------------------------------------------- a second run of main

\* No command of the calls so far failed or could not be executed: every
\* mutating command succeeded, merge-base ran whenever it was asked, and
\* rev-parse failed only for a local ref that does not exist.
NoFailures ==
    \A i \in DOMAIN log :
        /\ \A k \in DOMAIN log[i].calls : log[i].calls[k].ok
        /\ log[i].anc_checks > 0 => log[i].anc_ran
        /\ (log[i].compared # <<>> /\ ~log[i].range_ok) =>
               Resolve(log[i].compared[1], log[i].w.heads, log[i].w.remotes) = NoRef

\* The calls of the first run and of the second run, as indices of log,
\* once the second run has started (idx counts the second run's calls).
FirstRun == 1..(Len(log) - idx)

SecondRun == (Len(log) - idx + 1)..Len(log)

\* What git can answer during a call of the second run: nothing outside
\* the program changed the repository, so the upstream of a branch and the
\* existence of its tracking file are answered as in the first run.
InputsAgain(local_branch) ==
    {in \in Inputs(local_branch) :
        \A i \in FirstRun :
            log[i].branch = local_branch =>
                in.up = log[i].up /\ in.file = log[i].file}

\* main.rs:8-80: main is started again in the repository the first run
\* left; the fetch brings nothing new, current_branch is String::new().
\* The second run is followed only after a first run without failures.
SetupAgain ==
    /\ pc = "done"
    /\ NoFailures
    /\ \/ /\ pc' = "fatal"
          /\ UNCHANGED <<branches_to_remotes, local_branches, idx>>
       \/ \E order \in Listings(heads, head) :
             /\ pc' = "loop2"
             /\ idx' = 0
             /\ branches_to_remotes' = ParseMapping(ConfigLines(config))
             /\ local_branches' = [i \in DOMAIN order |-> ParseBranchLine(order[i])]
    /\ current_branch' = EmptyString
    /\ UNCHANGED <<world, log>>

\* main.rs:83-107: one iteration of the for loop, in the second run.
ProcessBranchAgain ==
    /\ pc = "loop2"
    /\ idx < Len(local_branches)
    /\ \E in \in InputsAgain(local_branches[idx + 1]) :
          LoopBody(local_branches[idx + 1],
                   process_branch(local_branches[idx + 1], current_branch, in, World))

\* main.rs:109  Ok(()), in the second run.
FinishAgain ==
    /\ pc = "loop2"
    /\ idx = Len(local_branches)
    /\ pc' = "done2"
    /\ UNCHANGED <<world, branches_to_remotes, local_branches, idx, current_branch, log>>

NextTwice ==
    Setup \/ ProcessBranch \/ Finish \/ SetupAgain \/ ProcessBranchAgain \/ FinishAgain

SpecTwice == Init /\ [][NextTwice]_vars

\* ============================================================== properties

\* The classification of section 4.3, from the mapping entry of the branch
\* and git's two answers.
StatusKind(o) ==
    IF o.branch \notin DOMAIN branches_to_remotes THEN "RemoteExists"
    ELSE IF branches_to_remotes[o.branch] = remote
         THEN (IF o.up # None THEN "RemoteExists" ELSE "RemoteGone")
         ELSE (IF o.file THEN "RemoteExists" ELSE "Unknown")

\* The ref of a RemoteExists status.
StatusRef(o) ==
    IF o.branch \in DOMAIN branches_to_remotes
       /\ branches_to_remotes[o.branch] = remote
    THEN o.up
    ELSE <<"refs", "remotes", remote, o.branch>>

\* Tips, in the repository the call started from.
LocalTip(o) == Resolve(<<"refs", "heads", o.branch>>, o.w.heads, o.w.remotes)

RemoteTip(o) == Resolve(StatusRef(o), o.w.heads, o.w.remotes)

DefaultTip(o) ==
    Resolve(<<"refs", "remotes", remote, default_branch>>, o.w.heads, o.w.remotes)

\* The tip the branch is compared against.
TargetTip(o) == IF StatusKind(o) = "RemoteGone" THEN DefaultTip(o) ELSE RemoteTip(o)

\* a is an ancestor of b in the commit graph, both existing.
Ancestor(a, b) == a # NoRef /\ b # NoRef /\ Reachable(a, b)

\* The commands a call invoked, by name.
Ops(o) == [k \in DOMAIN o.calls |-> o.calls[k].op]

\* Some call of the run deleted, or tried to delete, branch b.
DeleteInvoked(b) ==
    \E j \in DOMAIN log : \E k \in DOMAIN log[j].calls :
        log[j].calls[k].op = "branch -D" /\ log[j].calls[k].name = b

\* A line of the given kind was printed for the call's branch.
Printed(o, kind) ==
    \E k \in DOMAIN o.out : o.out[k].kind = kind /\ o.out[k].branch = o.branch

\* C1: a RemoteGone branch whose local tip is not an ancestor of the
\* default-branch tip, or whose ancestry check could not be executed, is
\* never the argument of delete-branch.
C1_GoneUnmergedNeverDeleted ==
    \A i \in DOMAIN log :
        (/\ StatusKind(log[i]) = "RemoteGone"
         /\ (~Ancestor(LocalTip(log[i]), DefaultTip(log[i])) \/ ~log[i].anc_ran))
        => ~DeleteInvoked(log[i].branch)

\* C1 witness: a RemoteGone branch was compared with the default branch, the
\* ancestry check ran and the local tip is not an ancestor.
C1_Witness ==
    \E i \in DOMAIN log :
        /\ StatusKind(log[i]) = "RemoteGone"
        /\ log[i].anc_ran
        /\ LocalTip(log[i]) # NoRef /\ DefaultTip(log[i]) # NoRef
        /\ ~Reachable(LocalTip(log[i]), DefaultTip(log[i]))

\* C2 (as stated): a RemoteExists branch strictly behind its remote ref is
\* fast-forward-merged, and not repointed, when it is the checked-out
\* branch, and repointed, and not merged, when it is not.
C2_UpdateRefOrMergeByCheckedOut ==
    \A i \in DOMAIN log :
        (/\ StatusKind(log[i]) = "RemoteExists"
         /\ log[i].range_ok /\ log[i].anc_ran
         /\ LocalTip(log[i]) # RemoteTip(log[i])
         /\ Ancestor(LocalTip(log[i]), RemoteTip(log[i])))
        => IF log[i].branch = log[i].w.head
           THEN Ops(log[i]) = <<"merge">>
           ELSE Ops(log[i]) = <<"update-ref">>

\* C3: a RemoteExists branch whose two resolved identifiers are equal gets
\* no mutating command, no output, no change of the tracked current branch
\* and no ancestry check.
C3_IdenticalIsSilent ==
    \A i \in DOMAIN log :
        (/\ StatusKind(log[i]) = "RemoteExists"
         /\ log[i].range_ok
         /\ LocalTip(log[i]) # NoRef
         /\ LocalTip(log[i]) = RemoteTip(log[i]))
        => /\ log[i].calls = <<>>
           /\ log[i].out = <<>>
           /\ log[i].next_cur = log[i].cur
           /\ log[i].anc_checks = 0

\* C3 witness: a branch already at its remote ref was processed.
C3_Witness ==
    \E i \in DOMAIN log :
        /\ StatusKind(log[i]) = "RemoteExists"
        /\ log[i].range_ok
        /\ LocalTip(log[i]) # NoRef
        /\ LocalTip(log[i]) = RemoteTip(log[i])

\* The branches process_branch was called for, in order.
Processed == [i \in DOMAIN log |-> log[i].branch]

\* A call that returned an error or in which a mutating command failed.
Failed(o) == o.ret = "Err" \/ \E k \in DOMAIN o.calls : ~o.calls[k].ok

\* C4: whatever fails while a branch is processed is reported with that
\* branch's name, the branches processed so far are exactly the listed ones
\* up to the loop's position, the loop can always take its next branch, and
\* the run ends (successfully) only after the whole list.
C4_FailuresAreIsolated ==
    /\ \A i \in DOMAIN log : Failed(log[i]) => Printed(log[i], "Error")
    /\ pc \in {"loop", "done"} =>
          /\ Len(log) = idx
          /\ idx <= Len(local_branches)
          /\ Processed = SubSeq(local_branches, 1, idx)
    /\ pc = "loop" /\ idx < Len(local_branches) => ENABLED ProcessBranch
    /\ pc = "loop" /\ idx = Len(local_branches) => ENABLED Finish
    /\ pc = "done" => Processed = local_branches
    /\ pc \in {"start", "fatal"} => log = <<>>

\* C4 witness: the run is over and a branch other than the last one failed.
C4_Witness ==
    /\ pc = "done"
    /\ \E i \in DOMAIN log : i < Len(log) /\ Failed(log[i])

\* C5: when the ancestry check could not be executed the branch gets no
\* mutating command, and a branch gets a mutating command only if the check
\* ran and its local tip is an ancestor of the tip it was compared against.
C5_UnconfirmedAncestryNeverMutates ==
    \A i \in DOMAIN log :
        /\ (log[i].anc_checks = 1 /\ ~log[i].anc_ran) => log[i].calls = <<>>
        /\ log[i].calls # <<>> =>
              /\ log[i].anc_ran
              /\ Ancestor(LocalTip(log[i]), TargetTip(log[i]))

\* C5 witness: the ancestry check was asked for and could not be executed,
\* on a branch strictly behind the tip it was compared against.
C5_Witness ==
    \E i \in DOMAIN log :
        /\ log[i].anc_checks = 1
        /\ ~log[i].anc_ran
        /\ LocalTip(log[i]) # TargetTip(log[i])
        /\ Ancestor(LocalTip(log[i]), TargetTip(log[i]))

\* C6: the branch of process_branch taken, and the refs it compares, are
\* the ones the classification table gives for the mapping entry and git's
\* two answers.
C6_DispatchAgreesWithClassification ==
    \A i \in DOMAIN log :
        LET o == log[i]
            b == o.branch
            convention == <<"refs", "remotes", remote, b>>
            local == <<"refs", "heads", b>>
            expected ==
                IF b \notin DOMAIN branches_to_remotes
                THEN <<"exists", <<local, convention>>>>
                ELSE IF branches_to_remotes[b] = remote /\ o.up # None
                THEN <<"exists", <<local, o.up>>>>
                ELSE IF branches_to_remotes[b] = remote
                THEN <<"gone", <<local, <<"refs", "remotes", remote, default_branch>>>>>>
                ELSE IF ~o.file
                THEN <<"unknown", <<>>>>
                ELSE <<"exists", <<local, convention>>>>
        IN /\ o.path = expected[1]
           /\ o.compared = expected[2]
           /\ o.path \in {"exists", "gone", "unknown"}

\* C6 witness: the run met a branch whose upstream resolves to a ref other
\* than the conventional one, and a branch whose status is Unknown.
C6_Witness ==
    \E i, j \in DOMAIN log :
        /\ log[i].branch \in DOMAIN branches_to_remotes
        /\ branches_to_remotes[log[i].branch] = remote
        /\ log[i].up # None
        /\ log[i].up # <<"refs", "remotes", remote, log[i].branch>>
        /\ StatusKind(log[j]) = "Unknown"

\* C7: a branch whose status is Unknown gets no mutating command and
\* leaves the tracked current branch as it was.
C7_UnknownIsUntouched ==
    \A i \in DOMAIN log :
        StatusKind(log[i]) = "Unknown" =>
            /\ log[i].calls = <<>>
            /\ log[i].next_cur = log[i].cur
            /\ \A j \in DOMAIN log : \A k \in DOMAIN log[j].calls :
                   log[j].calls[k].during # log[i].branch

\* C7 witness: a branch mapped to another remote, with no tracking file,
\* whose tip is already in the default branch.
C7_Witness ==
    \E i \in DOMAIN log :
        /\ StatusKind(log[i]) = "Unknown"
        /\ Ancestor(LocalTip(log[i]), DefaultTip(log[i]))

\* C8 (as stated): a branch whose status is Unknown prints nothing.
C8_UnknownPrintsNothing ==
    \A i \in DOMAIN log : StatusKind(log[i]) = "Unknown" => log[i].out = <<>>

\* C9 (as stated): a RemoteGone branch whose local tip is not an ancestor
\* of the default-branch tip gets a warning, and is not deleted.
C9_GoneUnmergedWarns ==
    \A i \in DOMAIN log :
        (/\ StatusKind(log[i]) = "RemoteGone"
         /\ log[i].range_ok /\ log[i].anc_ran
         /\ LocalTip(log[i]) # NoRef /\ DefaultTip(log[i]) # NoRef
         /\ ~Reachable(LocalTip(log[i]), DefaultTip(log[i])))
        => /\ Printed(log[i], "Warning")
           /\ ~DeleteInvoked(log[i].branch)

\* C10 (as stated): "Updated branch" is printed only when the merge or the
\* update-ref succeeded; when it fails an error names the branch and no
\* "Updated branch" line is printed.
C10_UpdatedOnlyOnSuccess ==
    \A i \in DOMAIN log :
        /\ Printed(log[i], "Updated branch") =>
              \E k \in DOMAIN log[i].calls :
                  /\ log[i].calls[k].op \in {"merge", "update-ref"}
                  /\ log[i].calls[k].ok
        /\ (\E k \in DOMAIN log[i].calls :
                /\ log[i].calls[k].op \in {"merge", "update-ref"}
                /\ ~log[i].calls[k].ok)
           => /\ Printed(log[i], "Error")
              /\ ~Printed(log[i], "Updated branch")

\* The call met a RemoteGone branch, both commands it needed ran, and the
\* local tip is an ancestor of the default-branch tip.
GoneAndMerged(o) ==
    /\ StatusKind(o) = "RemoteGone"
    /\ o.range_ok /\ o.anc_ran
    /\ Ancestor(LocalTip(o), DefaultTip(o))

\* The call met a RemoteExists branch strictly behind its remote ref, and
\* both commands it needed ran.
ExistsAndBehind(o) ==
    /\ StatusKind(o) = "RemoteExists"
    /\ o.range_ok /\ o.anc_ran
    /\ LocalTip(o) # RemoteTip(o)
    /\ Ancestor(LocalTip(o), RemoteTip(o))

\* C11 (as stated): the first branch is processed with the checked-out
\* branch as tracked current branch, and the tracked current branch changes
\* only in a call that checks out the default branch and then deletes the
\* branch that was checked out, and then to the default branch's name.
C11_CurrentBranchReadThenChangedByDeletion ==
    /\ (log # <<>> /\ log[1].w.head # Detached) => log[1].cur = log[1].w.head
    /\ \A i \in DOMAIN log :
          log[i].next_cur # log[i].cur =>
              /\ log[i].branch = log[i].w.head
              /\ Ops(log[i]) = <<"checkout", "branch -D">>
              /\ log[i].calls[1].ok /\ log[i].calls[2].ok
              /\ log[i].next_cur = default_branch

\* C12 (as stated): for a RemoteGone, merged branch that is the checked-out
\* branch the first command is the checkout of the default branch,
\* delete-branch comes second and only after a successful checkout, and the
\* "Deleted branch" line needs a successful delete-branch.
C12_CheckoutBeforeDelete ==
    \A i \in DOMAIN log :
        (GoneAndMerged(log[i]) /\ log[i].branch = log[i].w.head) =>
            /\ log[i].calls # <<>>
            /\ log[i].calls[1].op = "checkout"
            /\ log[i].calls[1].name = default_branch
            /\ \A k \in DOMAIN log[i].calls :
                   log[i].calls[k].op = "branch -D" => k = 2 /\ log[i].calls[1].ok
            /\ Printed(log[i], "Deleted branch") =>
                   \E k \in DOMAIN log[i].calls :
                       log[i].calls[k].op = "branch -D" /\ log[i].calls[k].ok

C15_UnresolvedRangeIsReportedAsError ==
    \A i \in DOMAIN log :
        (/\ StatusKind(log[i]) \in {"RemoteExists", "RemoteGone"}
         /\ (LocalTip(log[i]) = NoRef \/ TargetTip(log[i]) = NoRef))
        => /\ Printed(log[i], "Error")
           /\ log[i].calls = <<>>
           /\ log[i].next_cur = log[i].cur
           /\ pc \in {"loop", "done"}

\* C16: a RemoteExists branch whose two tips differ and whose local tip is
\* not an ancestor of the remote tip gets a warning with its name and no
\* mutating command.
C16_DivergedWarnsOnly ==
    \A i \in DOMAIN log :
        (/\ StatusKind(log[i]) = "RemoteExists"
         /\ log[i].range_ok
         /\ LocalTip(log[i]) # NoRef /\ RemoteTip(log[i]) # NoRef
         /\ LocalTip(log[i]) # RemoteTip(log[i])
         /\ ~Reachable(LocalTip(log[i]), RemoteTip(log[i])))
        => /\ Printed(log[i], "Warning")
           /\ log[i].calls = <<>>

\* C16 witness: the ancestry check ran on a branch with commits its remote
\* ref does not have.
C16_Witness ==
    \E i \in DOMAIN log :
        /\ StatusKind(log[i]) = "RemoteExists"
        /\ log[i].range_ok /\ log[i].anc_ran
        /\ LocalTip(log[i]) # NoRef /\ RemoteTip(log[i]) # NoRef
        /\ ~Reachable(LocalTip(log[i]), RemoteTip(log[i]))

\* C17 (as stated): with a detached HEAD, or after a failed setup step, the
\* run ends before the loop: no branch is processed and no mutating command
\* is invoked.
C17_NoLoopWithoutCurrentBranch ==
    /\ head = Detached => pc \in {"start", "fatal"}
    /\ \A i \in DOMAIN log : log[i].w.head # Detached
    /\ pc = "fatal" => log = <<>>

\* C18 (as stated): delete-branch is never invoked on the branch that is
\* checked out when it is invoked.
C18_CheckedOutBranchNeverDeleted ==
    \A i \in DOMAIN log : \A k \in DOMAIN log[i].calls :
        log[i].calls[k].op = "branch -D" =>
            log[i].calls[k].name # log[i].calls[k].head

\* C19 (as stated): every call of process_branch is given the branch that
\* is checked out as current branch; in particular after a successful
\* checkout of the default branch, whether or not the delete that follows
\* succeeds.
C19_TrackedEqualsCheckedOut ==
    \A i \in DOMAIN log :
        /\ log[i].w.head # Detached => log[i].cur = log[i].w.head
        /\ (\E k \in DOMAIN log[i].calls :
                log[i].calls[k].op = "checkout" /\ log[i].calls[k].ok)
           => log[i].next_cur = default_branch

\* Local heads when call i returned.
HeadsAfter(i) == IF i < Len(log) THEN log[i + 1].w.heads ELSE heads

\* The ref-changing commands invoked for branch b in the whole run.
RefChanges(b) ==
    {jk \in {<<j, k>> : j \in DOMAIN log, k \in 1..2} :
        /\ jk[2] \in DOMAIN log[jk[1]].calls
        /\ log[jk[1]].calls[jk[2]].during = b
        /\ log[jk[1]].calls[jk[2]].op \in {"update-ref", "merge", "branch -D"}}

\* C20: the commands of a call name only its own branch (update-ref its
\* refs/heads ref, delete-branch its name) or, for checkout, the default
\* branch; no other local head differs after the call; and a branch gets
\* at most one of update-ref, merge and delete-branch in the run.
C20_OnlyOwnBranchIsTargeted ==
    \A i \in DOMAIN log :
        /\ \A k \in DOMAIN log[i].calls :
              LET c == log[i].calls[k]
              IN /\ c.during = log[i].branch
                 /\ c.op = "update-ref" => c.ref = <<"refs", "heads", log[i].branch>>
                 /\ c.op = "branch -D" => c.name = log[i].branch
                 /\ c.op = "checkout" => c.name = default_branch
        /\ \A b \in Branches :
              b # log[i].branch => HeadsAfter(i)[b] = log[i].w.heads[b]
        /\ Cardinality(RefChanges(log[i].branch)) <= 1

\* C20 witness: in one run a branch was repointed and another one deleted.
C20_Witness ==
    \E i, j \in DOMAIN log :
        /\ Ops(log[i]) = <<"update-ref">> /\ log[i].calls[1].ok
        /\ Ops(log[j]) = <<"branch -D">> /\ log[j].calls[1].ok

\* C14 (as stated): in a second run after a first one, with no failures,
\* every branch is Synced: no mutating command and no output.
C14_SecondRunIsSilent ==
    (pc \in {"loop2", "done2"} /\ NoFailures) =>
        \A j \in SecondRun : log[j].calls = <<>> /\ log[j].out = <<>>

\* C14 (amended): in a second run after a first one, with no failures, no
\* mutating command is invoked; a branch the first run updated, or printed
\* nothing for, prints nothing; and a branch the first run only reported on
\* gets the same lines again.
C14_SecondRunOnlyRepeatsReports ==
    (pc \in {"loop2", "done2"} /\ NoFailures) =>
        \A j \in SecondRun :
            /\ log[j].calls = <<>>
            /\ \A i \in FirstRun :
                  log[i].branch = log[j].branch =>
                      log[j].out = IF log[i].calls # <<>> THEN <<>> ELSE log[i].out

\* C14 witness: a second run ended without failures in which a branch the
\* first run repointed was silent and another one was warned about again.
C14_Witness ==
    /\ pc = "done2"
    /\ NoFailures
    /\ \E i \in FirstRun, j \in SecondRun :
          /\ log[i].branch = log[j].branch
          /\ Ops(log[i]) = <<"update-ref">>
          /\ log[j].out = <<>>
    /\ \E i \in FirstRun, j \in SecondRun :
          /\ log[i].branch = log[j].branch
          /\ Printed(log[j], "Warning")

====
